---- MODULE Spec2Model ----
(***************************************************************************)
(* Model of the 2D geometry kernel of the Gmt library (v0.7,               *)
(* src/unnamed/part_000; src/gmt.js holds an older copy of the same code). *)
(*                                                                         *)
(* Numbers.  The library works on JavaScript Numbers.  The model feeds it  *)
(* integer coordinates and keeps every derived value exact:                *)
(*   - a quotient a/b is a reduced fraction [num, den] (den > 0);          *)
(*   - a square root, and a sum of square roots and integers, is a "surd": *)
(*     a function from square-free radicands k to non-zero integer         *)
(*     coefficients c, standing for the sum of c * sqrt(k) (k = 1 carries  *)
(*     the integer part).  Square roots of distinct square-free numbers    *)
(*     are linearly independent over the rationals, so two surds are equal *)
(*     as real numbers exactly when they are equal as functions.           *)
(* Rounding of IEEE doubles is therefore not modelled.                     *)
(***************************************************************************)
EXTENDS Integers, Sequences, FiniteSets, TLC

VARIABLES
    s1, s2,      \* the two Segment objects handed to Intersection.segments
    isect,       \* what the last call of Intersection.segments returned
    divs,        \* the divisors of the divisions that call executed
    shape,       \* a PolyLine or Polygon object
    out,         \* what the last method call on shape returned
    v, c1, c2,   \* a Vertex and two Circle objects
    hit,         \* what the last Distance or Collision call on them returned
    util,        \* a utility under test: a RingArray, a Counter, or the
                 \* arguments of a call of a utility function
    uret         \* what the last call on util returned

vars == <<s1, s2, isect, divs, shape, out, v, c1, c2, hit, util, uret>>

segVars == <<s1, s2, isect, divs>>
polyVars == <<shape, out>>
circleVars == <<v, c1, c2, hit>>
utilVars == <<util, uret>>

\* ------------------------------------------------------------------ bounds

\* segment coordinates are drawn from 0..MaxCoord
MaxCoord == 2
\* vertices of poly-lines and polygons lie on the lines y = 0 and
\* y = MaxPolyCoord, with x in 0..MaxPolyCoord
MaxPolyCoord == 2
\* a poly-line or polygon holds at most MaxVerts vertices
MaxVerts == 4
\* circle centres and the probe vertex have coordinates in 0..MaxCircleCoord
MaxCircleCoord == 2
\* circle radii are drawn from -1..MaxRadius
MaxRadius == 3

Coord == 0..MaxCoord
PolyXs == 0..MaxPolyCoord
PolyYs == {0, MaxPolyCoord}
CircleCoord == 0..MaxCircleCoord
Radius == (0 - 1)..MaxRadius

\* JavaScript's null, and "no call made yet"
null == [null |-> TRUE]
NoCall == [op |-> "none"]

\* ------------------------------------------------- exact number arithmetic

Abs(n) == IF n < 0 THEN 0 - n ELSE n

RECURSIVE GCD(_, _)
GCD(a, b) == IF b = 0 THEN a ELSE GCD(b, a % b)

\* n / d for integers n and d # 0, as a reduced fraction with den > 0
Frac(n, d) ==
    LET g == GCD(Abs(n), Abs(d))
        s == IF d < 0 THEN 0 - 1 ELSE 1
    IN  [num |-> (s * n) \div g, den |-> (s * d) \div g]

IntToRat(n) == [num |-> n, den |-> 1]

RatAdd(a, b) == Frac(a.num * b.den + b.num * a.den, a.den * b.den)

RatMul(a, b) == Frac(a.num * b.num, a.den * b.den)

\* a <= b on fractions (both denominators are positive)
RatLeq(a, b) == a.num * b.den <= b.num * a.den

\* ----------------------------------------------------------------- shapes

\* new Gmt.Vertex(x, y)
Vertex(x, y) == [x |-> x, y |-> y]

\* new Gmt.Segment(x1, y1, x2, y2)
Segment(x1, y1, x2, y2) == [start |-> Vertex(x1, y1), end |-> Vertex(x2, y2)]

\* the class an object was constructed from, told by the fields it has
ClassOf(obj) ==
    IF "class" \in DOMAIN obj THEN obj.class
    ELSE IF "radius" \in DOMAIN obj THEN "Circle"
    ELSE IF "width" \in DOMAIN obj THEN "Rectangle"
    ELSE IF "start" \in DOMAIN obj THEN "Segment"
    ELSE "Vertex"

\* Vertex.move(dx, dy): the receiver afterwards
VertexMove(this, dx, dy) == [this EXCEPT !.x = @ + dx, !.y = @ + dy]

SegmentMoveStartOnly(this, dx, dy) ==
    [this EXCEPT !.start = VertexMove(@, dx, dy)]

\* Segment.move(dx, dy): the receiver afterwards
SegmentMove(this, dx, dy) ==
    [this EXCEPT !.start = VertexMove(@, dx, dy), !.end = VertexMove(@, dx, dy)]

\* --------------------------------------------------- Gmt.between (utility)

betweenExclusive(num, min, max) ==
    /\ ~RatLeq(num, IntToRat(min))
    /\ ~RatLeq(IntToRat(max), num)

\* num >= min && num <= max
between(num, min, max) ==
    /\ RatLeq(IntToRat(min), num)
    /\ RatLeq(num, IntToRat(max))

\* ------------------------------------------------- Intersection.segments

tNomSwapped(a, b) ==
    (a.start.x - b.start.x) * (b.start.y - b.end.y)
        - (a.start.y - b.start.y) * (b.end.x - b.start.x)

tNom(a, b) ==
    (a.start.x - b.start.x) * (b.start.y - b.end.y)
        - (a.start.y - b.start.y) * (b.start.x - b.end.x)

uNomNoNegation(a, b) ==
    (a.start.x - a.end.x) * (a.start.y - b.start.y)
        - (a.start.y - a.end.y) * (a.start.x - b.start.x)

uNom(a, b) ==
    0 - ((a.start.x - a.end.x) * (a.start.y - b.start.y)
            - (a.start.y - a.end.y) * (a.start.x - b.start.x))

tDenPlus(a, b) ==
    (a.start.x - a.end.x) * (b.start.y - b.end.y)
        + (a.start.y - a.end.y) * (b.start.x - b.end.x)

tDenWrongVertex(a, b) ==
    (a.start.x - a.end.x) * (b.start.y - b.end.y)
        - (a.start.y - a.end.y) * (b.start.x - a.end.x)

tDen(a, b) ==
    (a.start.x - a.end.x) * (b.start.y - b.end.y)
        - (a.start.y - a.end.y) * (b.start.x - b.end.x)

\* the object returned when tDen == 0
ParallelResult == [parallel |-> TRUE, vertex |-> null, intersect |-> FALSE]

\* Gmt.Intersection.segments(a, b)
IntersectionSegments(a, b) ==
    IF tDen(a, b) = 0
    THEN ParallelResult
    ELSE LET t == Frac(tNom(a, b), tDen(a, b))
             u == Frac(uNom(a, b), tDen(a, b))
         IN  [parallel  |-> FALSE,
              vertex    |-> Vertex(
                  RatAdd(IntToRat(a.start.x),
                         RatMul(t, IntToRat(a.end.x - a.start.x))),
                  RatAdd(IntToRat(a.start.y),
                         RatMul(t, IntToRat(a.end.y - a.start.y)))),
              intersect |-> between(t, 0, 1) /\ between(u, 0, 1),
              t         |-> t,
              u         |-> u]

\* the divisors of the divisions Intersection.segments(a, b) executes
SegmentsDivisors(a, b) ==
    IF tDen(a, b) = 0 THEN <<>> ELSE <<tDen(a, b), tDen(a, b)>>

\* Gmt.Collision.segments(a, b)
CollisionSegments(a, b) == IntersectionSegments(a, b).intersect

\* --------------------------------------- specification of the segment calls

Segments == { Segment(x1, y1, x2, y2) : x1 \in Coord, y1 \in Coord,
                                        x2 \in Coord, y2 \in Coord }

\* the objects of a part of the library that the caller has not constructed
PolyIdle == shape = null /\ out = NoCall
CircleIdle ==
    /\ v = null
    /\ c1 = null
    /\ c2 = null
    /\ hit = NoCall
SegIdle ==
    /\ s1 = null
    /\ s2 = null
    /\ isect = NoCall
    /\ divs = <<>>
UtilIdle == util = null /\ uret = NoCall

\* two segments are constructed; nothing has been called yet
Init ==
    /\ s1 \in Segments
    /\ s2 \in Segments
    /\ isect = NoCall
    /\ divs = <<>>
    /\ PolyIdle
    /\ CircleIdle
    /\ UtilIdle

\* r = Gmt.Intersection.segments(s1, s2)
CallIntersectionSegments ==
    /\ s1 # null
    /\ isect' = [op |-> "Intersection.segments", ret |-> IntersectionSegments(s1, s2)]
    /\ divs' = SegmentsDivisors(s1, s2)
    /\ UNCHANGED <<s1, s2, polyVars, circleVars, utilVars>>

\* r = Gmt.Collision.segments(s1, s2)
CallCollisionSegments ==
    /\ s1 # null
    /\ isect' = [op |-> "Collision.segments", ret |-> CollisionSegments(s1, s2)]
    /\ divs' = SegmentsDivisors(s1, s2)
    /\ UNCHANGED <<s1, s2, polyVars, circleVars, utilVars>>

Next ==
    \/ CallIntersectionSegments
    \/ CallCollisionSegments

Spec == Init /\ [][Next]_vars

\* ------------------------------------------------------ surds (Math.sqrt)

SurdZero == [k \in {} |-> 0]

\* the integer n as a surd
IntToSurd(n) == IF n = 0 THEN SurdZero ELSE [k \in {1} |-> n]

\* the largest m <= from with m * m dividing q, for q > 0 and from >= 1
RECURSIVE SquarePartFrom(_, _)
SquarePartFrom(q, from) ==
    IF q % (from * from) = 0 THEN from ELSE SquarePartFrom(q, from - 1)

\* the largest m with m * m dividing q, for q > 0
SquarePart(q) == SquarePartFrom(q, q)

\* Math.sqrt(q) for an integer q >= 0: m * sqrt(k) with k square-free
Sqrt(q) ==
    IF q = 0
    THEN SurdZero
    ELSE LET m == SquarePart(q) IN [k \in {q \div (m * m)} |-> m]

SurdCoef(a, k) == IF k \in DOMAIN a THEN a[k] ELSE 0

SurdAdd(a, b) ==
    LET D == DOMAIN a \cup DOMAIN b
    IN  [k \in {j \in D : SurdCoef(a, j) + SurdCoef(b, j) # 0} |->
            SurdCoef(a, k) + SurdCoef(b, k)]

SurdSub(a, b) ==
    LET D == DOMAIN a \cup DOMAIN b
    IN  [k \in {j \in D : SurdCoef(a, j) - SurdCoef(b, j) # 0} |->
            SurdCoef(a, k) - SurdCoef(b, k)]

\* a < 0, for a surd i + m * sqrt(k) with at most one irrational term
SurdIsNegative(a) ==
    LET i == SurdCoef(a, 1)
        irr == DOMAIN a \ {1}
    IN  IF irr = {}
        THEN i < 0
        ELSE LET k == CHOOSE j \in irr : TRUE
                 m == a[k]
             IN  IF m < 0
                 THEN i <= 0 \/ m * m * k > i * i
                 ELSE i < 0 /\ m * m * k < i * i

\* ---------------------------------------------------------------- Distance

\* Gmt.Distance.plain(x1, y1, x2, y2)
DistancePlain(x1, y1, x2, y2) ==
    LET dx == x1 - x2
        dy == y1 - y2
    IN  Sqrt(dx * dx + dy * dy)

\* Gmt.Distance.vertices(v1, v2)
DistanceVertices(v1, v2) == DistancePlain(v1.x, v1.y, v2.x, v2.y)

\* Segment.length()
SegmentLength(s) == DistanceVertices(s.start, s.end)

\* ------------------------------------------------------ PolyLine, Polygon

\* a completed call: it returned a value, or it threw
Returned(val) == [threw |-> FALSE, ret |-> val]
Thrown(e) == [threw |-> TRUE, error |-> e]

\* an argument of a call is truthy: it was passed and is not 0
Truthy(args, i) == i <= Len(args) /\ args[i] # 0

\* new Gmt.PolyLine(...args)
PolyLineNew(args) ==
    [class    |-> "PolyLine",
     vertices |-> IF Truthy(args, 1) /\ Truthy(args, 2)
                  THEN <<Vertex(args[1], args[2])>>
                  ELSE <<>>]

\* PolyLine.add(x, y): the receiver afterwards
PolyLineAdd(this, x, y) ==
    [this EXCEPT !.vertices = Append(@, Vertex(x, y))]

PolyLineToSegmentsFromSecond(this) ==
    LET vs == this.vertices
    IN  [i \in 1..(Len(vs) - 2) |->
            Segment(vs[i + 1].x, vs[i + 1].y, vs[i + 2].x, vs[i + 2].y)]

\* PolyLine.move(x, y): the receiver afterwards
PolyLineMove(this, x, y) ==
    [this EXCEPT !.vertices = [i \in 1..Len(@) |-> VertexMove(@[i], x, y)]]

\* PolyLine.toSegments()
PolyLineToSegments(this) ==
    LET vs == this.vertices
    IN  [i \in 1..(Len(vs) - 1) |->
            Segment(vs[i].x, vs[i].y, vs[i + 1].x, vs[i + 1].y)]

\* PolyLine.toVertices()
PolyLineToVertices(this) == this.vertices

\* segments.forEach(s => len += s.length()), started with len
RECURSIVE AddLengths(_, _)
AddLengths(segments, len) ==
    IF segments = <<>>
    THEN len
    ELSE AddLengths(Tail(segments), SurdAdd(len, SegmentLength(Head(segments))))

\* PolyLine.length()
PolyLineLength(this) == AddLengths(PolyLineToSegments(this), IntToSurd(0))

\* new Gmt.Polygon(...args)
PolygonNew(args) == [class |-> "Polygon", body |-> PolyLineNew(args)]

\* Polygon.add(x, y): the receiver afterwards
PolygonAdd(this, x, y) ==
    [this EXCEPT !.body.vertices = Append(@, Vertex(x, y))]

\* Polygon.move(x, y): the receiver afterwards
PolygonMove(this, x, y) ==
    [this EXCEPT !.body.vertices = [i \in 1..Len(@) |-> VertexMove(@[i], x, y)]]

\* Polygon.toVertices()
PolygonToVertices(this) == PolyLineToVertices(this.body)

PolygonToSegmentsOpen(this) == Returned(PolyLineToSegments(this.body))

\* Polygon.toSegments(): reading vs.x of an empty polygon throws
PolygonToSegments(this) ==
    LET segments == PolyLineToSegments(this.body)
        n == Len(PolygonToVertices(this))
    IN  IF n = 0
        THEN Thrown("TypeError")
        ELSE LET vs == PolygonToVertices(this)[1]
                 ve == PolygonToVertices(this)[n]
             IN  Returned(Append(segments, Segment(vs.x, vs.y, ve.x, ve.y)))

\* Polygon.length()
PolygonLength(this) ==
    LET segments == PolygonToSegments(this)
    IN  IF segments.threw
        THEN segments
        ELSE Returned(AddLengths(segments.ret, IntToSurd(0)))

\* the vertex list of either kind of shape
VerticesOf(sh) == IF sh.class = "Polygon" THEN sh.body.vertices ELSE sh.vertices

\* ------------------------- specification of the PolyLine and Polygon calls

\* argument lists of the constructors: none, x alone, or x and y
CtorArgs ==
    {<<>>} \cup { <<x>> : x \in PolyXs }
           \cup { <<x, y>> : x \in PolyXs, y \in PolyYs }

\* a PolyLine has been constructed
PolyLineInit ==
    /\ \E args \in CtorArgs : shape = PolyLineNew(args)
    /\ out = NoCall
    /\ SegIdle
    /\ CircleIdle
    /\ UtilIdle

\* a Polygon has been constructed
PolygonInit ==
    /\ \E args \in CtorArgs : shape = PolygonNew(args)
    /\ out = NoCall
    /\ SegIdle
    /\ CircleIdle
    /\ UtilIdle

\* shape.add(x, y)
CallAdd ==
    /\ shape # null
    /\ ClassOf(shape) \in {"PolyLine", "Polygon"}
    /\ Len(VerticesOf(shape)) < MaxVerts
    /\ \E x \in PolyXs, y \in PolyYs :
          shape' = IF shape.class = "Polygon"
                   THEN PolygonAdd(shape, x, y)
                   ELSE PolyLineAdd(shape, x, y)
    /\ out' = [op |-> "add", res |-> Returned("this")]
    /\ UNCHANGED <<segVars, circleVars, utilVars>>

\* shape.toSegments()
CallToSegments ==
    /\ shape # null
    /\ ClassOf(shape) \in {"PolyLine", "Polygon"}
    /\ out' = [op  |-> "toSegments",
               res |-> IF shape.class = "Polygon"
                       THEN PolygonToSegments(shape)
                       ELSE Returned(PolyLineToSegments(shape))]
    /\ UNCHANGED <<shape, segVars, circleVars, utilVars>>

CallLengthEmptying ==
    /\ shape # null
    /\ ClassOf(shape) \in {"Segment", "PolyLine", "Polygon"}
    /\ out' = [op  |-> "length",
               res |-> IF ClassOf(shape) = "Polygon"
                       THEN PolygonLength(shape)
                       ELSE IF ClassOf(shape) = "PolyLine"
                       THEN Returned(PolyLineLength(shape))
                       ELSE Returned(SegmentLength(shape))]
    /\ shape' = IF ClassOf(shape) = "Polygon"
                THEN [shape EXCEPT !.body.vertices = <<>>]
                ELSE IF ClassOf(shape) = "PolyLine"
                THEN [shape EXCEPT !.vertices = <<>>]
                ELSE shape
    /\ UNCHANGED <<segVars, circleVars, utilVars>>

\* shape.length()
CallLength ==
    /\ shape # null
    /\ ClassOf(shape) \in {"Segment", "PolyLine", "Polygon"}
    /\ out' = [op  |-> "length",
               res |-> IF ClassOf(shape) = "Polygon"
                       THEN PolygonLength(shape)
                       ELSE IF ClassOf(shape) = "PolyLine"
                       THEN Returned(PolyLineLength(shape))
                       ELSE Returned(SegmentLength(shape))]
    /\ UNCHANGED <<shape, segVars, circleVars, utilVars>>

PolyNext ==
    \/ CallAdd
    \/ CallToSegments
    \/ CallLength

SpecPolyLine == PolyLineInit /\ [][PolyNext]_vars

SpecPolygon == PolygonInit /\ [][PolyNext]_vars

\* ------------------------------------------------------------------ Circle

\* new Gmt.Circle(x, y, radius)
Circle(x, y, radius) == [x |-> x, y |-> y, radius |-> radius]

\* Circle.getCenter()
CircleGetCenter(c) == Vertex(c.x, c.y)

\* Circle.move(dx, dy): the receiver afterwards
CircleMove(this, dx, dy) == [this EXCEPT !.x = @ + dx, !.y = @ + dy]

\* a multiple of a power of PI: coef * PI^pow, zero written with pow 0
PiTerm(coef, pow) ==
    IF coef = 0 THEN [coef |-> 0, pow |-> 0] ELSE [coef |-> coef, pow |-> pow]

\* Gmt.PI
GmtPI == PiTerm(1, 1)

\* a * b for two such numbers
PiMul(a, b) == PiTerm(a.coef * b.coef, a.pow + b.pow)

\* Circle.getArea()
CircleGetArea(this) == PiMul(PiMul(GmtPI, GmtPI), PiTerm(this.radius, 0))

\* new Gmt.Rectangle(x, y, width, height)
Rectangle(x, y, width, height) ==
    [x |-> x, y |-> y, width |-> width, height |-> height]

\* Rectangle.move(dx, dy): the receiver when the call ends
RectangleMove(this, dx, dy) == [this EXCEPT !.x = @ + dx, !.y = @ + dy]

\* Rectangle.move(dx, dy): after this.y += dy the statement j reads a name
\* that is declared nowhere, so the call throws before return this
RectangleMoveResult == Thrown("ReferenceError")

\* Gmt.Distance.vertexVsCircle(p, c)
DistanceVertexVsCircle(p, c) ==
    SurdSub(DistancePlain(p.x, p.y, c.x, c.y), IntToSurd(c.radius))

DistanceCirclesOneRadius(a, b) ==
    SurdSub(DistancePlain(a.x, a.y, b.x, b.y), IntToSurd(a.radius))

\* Gmt.Distance.circles(a, b)
DistanceCircles(a, b) ==
    SurdSub(SurdSub(DistancePlain(a.x, a.y, b.x, b.y), IntToSurd(a.radius)),
            IntToSurd(b.radius))

CollisionVertexVsCircleInclusive(p, c) ==
    \/ SurdIsNegative(DistanceVertexVsCircle(p, c))
    \/ DistanceVertexVsCircle(p, c) = SurdZero

\* Gmt.Collision.vertexVsCircle(p, c)
CollisionVertexVsCircle(p, c) == SurdIsNegative(DistanceVertexVsCircle(p, c))

\* Gmt.Collision.circles(a, b)
CollisionCircles(a, b) == SurdIsNegative(DistanceCircles(a, b))

\* ------------------------------------ specification of the circle queries

Circles == { Circle(x, y, r) : x \in CircleCoord, y \in CircleCoord, r \in Radius }

\* a vertex and two circles are constructed; nothing has been called yet
CircleInit ==
    /\ v \in { Vertex(x, y) : x \in CircleCoord, y \in CircleCoord }
    /\ c1 \in Circles
    /\ c2 \in Circles
    /\ hit = NoCall
    /\ SegIdle
    /\ PolyIdle
    /\ UtilIdle

\* r = Gmt.Collision.vertexVsCircle(v, c1)
CallCollisionVertexVsCircle ==
    /\ c1 # null
    /\ hit' = [op |-> "Collision.vertexVsCircle", ret |-> CollisionVertexVsCircle(v, c1)]
    /\ UNCHANGED <<v, c1, c2, segVars, polyVars, utilVars>>

\* r = Gmt.Collision.circles(c1, c2)
CallCollisionCircles ==
    /\ c1 # null
    /\ hit' = [op |-> "Collision.circles", ret |-> CollisionCircles(c1, c2)]
    /\ UNCHANGED <<v, c1, c2, segVars, polyVars, utilVars>>

\* r = Gmt.Distance.vertices(p, q), for v and the centre of c1 in either
\* order, and for v twice
CallDistanceVertices ==
    /\ c1 # null
    /\ \E pq \in {<<v, CircleGetCenter(c1)>>, <<CircleGetCenter(c1), v>>, <<v, v>>} :
        LET p == pq[1]
            q == pq[2]
        IN
          hit' = [op |-> "Distance.vertices", a |-> p, b |-> q,
                  ret |-> DistanceVertices(p, q)]
    /\ UNCHANGED <<v, c1, c2, segVars, polyVars, utilVars>>

\* r = Gmt.Distance.circles(a, b), for c1 and c2 in either order
CallDistanceCircles ==
    /\ c1 # null
    /\ \E ab \in {<<c1, c2>>, <<c2, c1>>} :
        LET a == ab[1]
            b == ab[2]
        IN
          hit' = [op |-> "Distance.circles", a |-> a, b |-> b,
                  ret |-> DistanceCircles(a, b)]
    /\ UNCHANGED <<v, c1, c2, segVars, polyVars, utilVars>>

CircleNext ==
    \/ CallCollisionVertexVsCircle
    \/ CallCollisionCircles
    \/ CallDistanceVertices
    \/ CallDistanceCircles

SpecCircle == CircleInit /\ [][CircleNext]_vars

\* -------------------------------------------------------- cartesianToPolar

\* An angle atan(q) + c * PI, q and c fractions.  Math.atan of a fraction is a
\* rational multiple of PI only for 0, 1 and -1, which are folded into c, so
\* equal angles are equal records.
Angle(q, c) == [atan |-> q, pi |-> c]

\* Math.atan(q)
MathAtan(q) ==
    IF q = IntToRat(1) THEN Angle(IntToRat(0), Frac(1, 4))
    ELSE IF q = IntToRat(0 - 1) THEN Angle(IntToRat(0), Frac(0 - 1, 4))
    ELSE Angle(q, IntToRat(0))

\* phi + Gmt.PI
AnglePlusPi(phi) == [phi EXCEPT !.pi = RatAdd(@, IntToRat(1))]

CartesianToPolarNonNegativeY(x, y) ==
    [r   |-> DistancePlain(0, 0, x, y),
     phi |-> IF x = 0
             THEN IF y >= 0
                  THEN Angle(IntToRat(0), Frac(1, 2))
                  ELSE Angle(IntToRat(0), RatMul(Frac(1, 2), IntToRat(3)))
             ELSE IF x < 0
                  THEN AnglePlusPi(MathAtan(Frac(y, x)))
                  ELSE MathAtan(Frac(y, x))]

\* Gmt.cartesianToPolar(x, y)
CartesianToPolar(x, y) ==
    [r   |-> DistancePlain(0, 0, x, y),
     phi |-> IF x = 0
             THEN IF y > 0
                  THEN Angle(IntToRat(0), Frac(1, 2))
                  ELSE Angle(IntToRat(0), RatMul(Frac(1, 2), IntToRat(3)))
             ELSE IF x < 0
                  THEN AnglePlusPi(MathAtan(Frac(y, x)))
                  ELSE MathAtan(Frac(y, x))]

\* the divisors of the divisions Gmt.cartesianToPolar(x, y) executes:
\* Gmt.PI/2 when x == 0, y/x otherwise
CartesianToPolarDivisors(x, y) == IF x = 0 THEN <<2>> ELSE <<x>>

\* --------------------------------- specification of cartesianToPolar calls

\* the arguments x and y are integers in -MaxPolar..MaxPolar
MaxPolar == 4
PolarCoord == (0 - MaxPolar)..MaxPolar

\* the caller has chosen the arguments of a call of cartesianToPolar
PolarInit ==
    /\ \E x \in PolarCoord, y \in PolarCoord :
          util = [fn |-> "cartesianToPolar", x |-> x, y |-> y]
    /\ uret = NoCall
    /\ SegIdle
    /\ PolyIdle
    /\ CircleIdle

\* r = Gmt.cartesianToPolar(util.x, util.y)
CallCartesianToPolar ==
    /\ util # null
    /\ util.fn = "cartesianToPolar"
    /\ uret' = [op   |-> "cartesianToPolar",
                ret  |-> CartesianToPolar(util.x, util.y),
                divs |-> CartesianToPolarDivisors(util.x, util.y)]
    /\ UNCHANGED <<util, segVars, polyVars, circleVars>>

PolarNext == CallCartesianToPolar

SpecPolar == PolarInit /\ [][PolarNext]_vars

\* ------------------------------------- specification of calls on one shape

\* the most vertices a PolyLine or Polygon is built with here, and the
\* largest distance a shape is moved by along one axis
MaxShapeVerts == 3
MaxDelta == 2

Delta == (0 - MaxDelta)..MaxDelta

\* the vertex lists of the shapes built here
VertexLists ==
    UNION { [1..n -> { Vertex(x, y) : x \in PolyXs, y \in PolyYs }] :
            n \in 0..MaxShapeVerts }

\* sh.add(x1, y1).add(x2, y2)... for the vertices of vs in turn
RECURSIVE AddAll(_, _)
AddAll(sh, vs) ==
    IF vs = <<>>
    THEN sh
    ELSE AddAll(IF ClassOf(sh) = "Polygon"
                THEN PolygonAdd(sh, Head(vs).x, Head(vs).y)
                ELSE PolyLineAdd(sh, Head(vs).x, Head(vs).y),
                Tail(vs))

Rectangles ==
    { Rectangle(x, y, width, height) :
        x \in Coord, y \in Coord, width \in 0..MaxCoord, height \in 0..MaxCoord }

\* the shapes a caller has built: a Vertex, a Segment, a Circle, a Rectangle,
\* or a PolyLine or Polygon with its vertices added
Shapes ==
    { Vertex(x, y) : x \in Coord, y \in Coord }
        \cup Segments \cup Circles \cup Rectangles
        \cup { AddAll(PolyLineNew(<<>>), vs) : vs \in VertexLists }
        \cup { AddAll(PolygonNew(<<>>), vs) : vs \in VertexLists }

\* the points a shape is made of, in order
PointsOf(obj) ==
    LET class == ClassOf(obj)
    IN  IF class \in {"PolyLine", "Polygon"} THEN VerticesOf(obj)
        ELSE IF class = "Segment" THEN <<obj.start, obj.end>>
        ELSE <<Vertex(obj.x, obj.y)>>

\* the coordinates an object of a class is given here
GridXs(class) ==
    IF class \in {"PolyLine", "Polygon"} THEN PolyXs
    ELSE IF class = "Circle" THEN CircleCoord
    ELSE Coord

GridYs(class) ==
    IF class \in {"PolyLine", "Polygon"} THEN PolyYs
    ELSE IF class = "Circle" THEN CircleCoord
    ELSE Coord

\* every point of obj has coordinates that an object of the class is given
OnGrid(obj, class) ==
    \A i \in 1..Len(PointsOf(obj)) :
        /\ PointsOf(obj)[i].x \in GridXs(class)
        /\ PointsOf(obj)[i].y \in GridYs(class)

\* a shape has been built
ShapeInit ==
    /\ shape \in Shapes
    /\ out = NoCall
    /\ SegIdle
    /\ CircleIdle
    /\ UtilIdle

\* obj.move(dx, dy): the receiver when the call ends
Move(obj, dx, dy) ==
    LET class == ClassOf(obj)
    IN  IF class = "Vertex" THEN VertexMove(obj, dx, dy)
        ELSE IF class = "Segment" THEN SegmentMove(obj, dx, dy)
        ELSE IF class = "PolyLine" THEN PolyLineMove(obj, dx, dy)
        ELSE IF class = "Polygon" THEN PolygonMove(obj, dx, dy)
        ELSE IF class = "Circle" THEN CircleMove(obj, dx, dy)
        ELSE RectangleMove(obj, dx, dy)

\* obj.move(dx, dy): how the call ends
MoveResult(obj) ==
    IF ClassOf(obj) = "Rectangle" THEN RectangleMoveResult ELSE Returned("this")

\* shape.move(dx, dy)
CallMove ==
    /\ shape # null
    /\ \E dx \in Delta, dy \in Delta :
          /\ OnGrid(Move(shape, dx, dy), ClassOf(shape))
          /\ shape' = Move(shape, dx, dy)
          /\ out' = [op |-> "move", dx |-> dx, dy |-> dy, before |-> shape,
                     res |-> MoveResult(shape)]
    /\ UNCHANGED <<segVars, circleVars, utilVars>>

\* what toVertices() returns is the array the shape keeps, not a copy of it
TheVerticesArray == [ref |-> "vertices"]

\* shape.toVertices()
CallToVertices ==
    /\ shape # null
    /\ ClassOf(shape) \in {"PolyLine", "Polygon"}
    /\ out' = [op |-> "toVertices", res |-> Returned(TheVerticesArray)]
    /\ UNCHANGED <<shape, segVars, circleVars, utilVars>>

\* shape.getCenter() of a Circle
CallGetCenter ==
    /\ shape # null
    /\ ClassOf(shape) = "Circle"
    /\ out' = [op |-> "getCenter", res |-> Returned(CircleGetCenter(shape))]
    /\ UNCHANGED <<shape, segVars, circleVars, utilVars>>

\* shape.getArea() of a Circle
CallGetArea ==
    /\ shape # null
    /\ ClassOf(shape) = "Circle"
    /\ out' = [op |-> "getArea", res |-> Returned(CircleGetArea(shape))]
    /\ UNCHANGED <<shape, segVars, circleVars, utilVars>>

\* the shape with the array it keeps replaced by vs
WithVertices(sh, vs) ==
    IF ClassOf(sh) = "Polygon"
    THEN [sh EXCEPT !.body.vertices = vs]
    ELSE [sh EXCEPT !.vertices = vs]

\* the caller moves what the last call returned: the centre, or the first
\* element of the list, r[0].move(dx, dy)
ClientMovesReturned ==
    /\ shape # null
    /\ out.op \in {"toSegments", "toVertices", "getCenter"}
    /\ ~out.res.threw
    /\ \E dx \in Delta, dy \in Delta :
          \/ /\ out.op = "getCenter"
             /\ OnGrid(VertexMove(out.res.ret, dx, dy), "Circle")
             /\ out' = [op |-> "client.move", of |-> out.op, before |-> shape,
                        res |-> Returned(VertexMove(out.res.ret, dx, dy))]
             /\ shape' = shape
          \/ /\ out.op = "toSegments"
             /\ Len(out.res.ret) >= 1
             /\ OnGrid(SegmentMove(out.res.ret[1], dx, dy), "PolyLine")
             /\ out' = [op |-> "client.move", of |-> out.op, before |-> shape,
                        res |-> Returned([out.res.ret EXCEPT
                                            ![1] = SegmentMove(@, dx, dy)])]
             /\ shape' = shape
          \/ /\ out.op = "toVertices"
             /\ Len(VerticesOf(shape)) >= 1
             /\ OnGrid(VertexMove(VerticesOf(shape)[1], dx, dy), "PolyLine")
             /\ out' = [op |-> "client.move", of |-> out.op, before |-> shape,
                        res |-> out.res]
             /\ shape' = WithVertices(shape,
                            [VerticesOf(shape) EXCEPT ![1] = VertexMove(@, dx, dy)])
    /\ UNCHANGED <<segVars, circleVars, utilVars>>

\* the caller appends to the list the last call returned, r.push(e)
ClientPushesReturned ==
    /\ shape # null
    /\ out.op \in {"toSegments", "toVertices"}
    /\ ~out.res.threw
    /\ \E x \in PolyXs, y \in PolyYs :
          \/ /\ out.op = "toSegments"
             /\ out' = [op |-> "client.push", of |-> out.op, before |-> shape,
                        res |-> Returned(Append(out.res.ret, Segment(x, y, x, y)))]
             /\ shape' = shape
          \/ /\ out.op = "toVertices"
             /\ Len(VerticesOf(shape)) < MaxShapeVerts
             /\ out' = [op |-> "client.push", of |-> out.op, before |-> shape,
                        res |-> out.res]
             /\ shape' = WithVertices(shape, Append(VerticesOf(shape), Vertex(x, y)))
    /\ UNCHANGED <<segVars, circleVars, utilVars>>

ShapeNext ==
    \/ CallMove
    \/ CallToSegments
    \/ CallToVertices
    \/ CallLength
    \/ CallGetCenter
    \/ CallGetArea
    \/ ClientMovesReturned
    \/ ClientPushesReturned

SpecShape == ShapeInit /\ [][ShapeNext]_vars

\* ------------------------- specification of the query calls on all shapes

\* the caller has built two segments, or a vertex and two circles, or a
\* PolyLine, or a Polygon, and calls the functions and methods that take them
SpecQueries ==
    /\ Init \/ CircleInit \/ PolyLineInit \/ PolygonInit
    /\ [][Next \/ CircleNext \/ PolyNext]_vars

\* -------------------------------------------------- values of any type

\* a value of the language, told by its type; NaN is kept apart from the
\* numbers n, and every array or other object is a value of type "object"
JsNumber(n) == [t |-> "number", n |-> n]
JsBoolean(b) == [t |-> "boolean", b |-> b]
JsString(str) == [t |-> "string", s |-> str]
JsNull == [t |-> "null"]
JsUndefined == [t |-> "undefined"]
JsNaN == [t |-> "NaN"]

\* an array with the elements of seq at the indices 0..Len(seq) - 1
JsArray(seq) ==
    [t |-> "object", length |-> Len(seq),
     at |-> [k \in 0..(Len(seq) - 1) |-> seq[k + 1]]]

\* arr[k]: undefined where the array holds nothing
ArrayGet(arr, k) == IF k \in DOMAIN arr.at THEN arr.at[k] ELSE JsUndefined

\* arr[k] = val: the array afterwards; an index at or past the end extends it
ArraySet(arr, k, val) ==
    [arr EXCEPT !.at = [j \in (DOMAIN arr.at) \cup {k} |->
                           IF j = k THEN val ELSE arr.at[j]],
                !.length = IF k >= @ THEN k + 1 ELSE @]

\* arr.push(val): the array afterwards
ArrayPush(arr, val) == ArraySet(arr, arr.length, val)

\* the i-th argument of a call: undefined when it was not passed
Arg(args, i) == IF i <= Len(args) THEN args[i] ELSE JsUndefined

\* the condition value ? ... : ... takes its first branch
JsTruthy(value) ==
    IF value.t = "number" THEN value.n # 0
    ELSE IF value.t = "boolean" THEN value.b
    ELSE IF value.t = "string" THEN value.s # ""
    ELSE value.t = "object"

\* a - b and a + b for two numbers
JsSub(a, b) == JsNumber(a.n - b.n)
JsAdd(a, b) == JsNumber(a.n + b.n)

\* ----------------------------------------------------- Gmt.nullish (utility)

\* Gmt.nullish(value, def)
nullish(value, def) == IF JsTruthy(value) THEN value ELSE def

\* the largest number passed to nullish
MaxNumber == 1

JsValues ==
    { JsNumber(n) : n \in (0 - MaxNumber)..MaxNumber }
        \cup { JsBoolean(b) : b \in BOOLEAN }
        \cup { JsString(str) : str \in {"", "a"} }
        \cup { JsNull, JsUndefined, JsNaN, JsArray(<<>>) }

\* the caller has picked a value and a default
NullishInit ==
    /\ \E value \in JsValues, def \in JsValues :
          util = [fn |-> "nullish", value |-> value, def |-> def]
    /\ uret = NoCall
    /\ SegIdle
    /\ PolyIdle
    /\ CircleIdle

\* r = Gmt.nullish(value, def)
CallNullish ==
    /\ util # null
    /\ util.fn = "nullish"
    /\ uret' = [op |-> "nullish", ret |-> nullish(util.value, util.def)]
    /\ UNCHANGED <<util, segVars, polyVars, circleVars>>

NullishNext == CallNullish

SpecNullish == NullishInit /\ [][NullishNext]_vars

\* ------------------------------------------------------------ Gmt.RingArray

\* new Gmt.RingArray(baseArray)
RingArrayNew(args) ==
    [values |-> nullish(Arg(args, 1), JsArray(<<>>)), i |-> 0]

\* RingArray.add(item): the receiver afterwards
RingArrayAdd(this, item) == [this EXCEPT !.values = ArrayPush(@, item)]

\* RingArray.replace(item): the receiver afterwards
RingArrayReplace(this, item) ==
    [this EXCEPT !.values = ArraySet(@, this.i, item)]

\* RingArray.reset(): the receiver afterwards
RingArrayReset(this) == [this EXCEPT !.i = 0]

\* RingArray.get()
RingArrayGet(this) == ArrayGet(this.values, this.i)

\* RingArray.next(step): the receiver afterwards; the call returns its get()
RingArrayNext(this, args) ==
    LET step == nullish(Arg(args, 1), JsNumber(1))
        i == this.i + step.n
    IN  [this EXCEPT !.i = IF i < this.values.length
                           THEN i
                           ELSE 0 + i - this.values.length]

\* RingArray.prev(step): the receiver afterwards; the call returns its get()
RingArrayPrev(this, args) ==
    LET step == nullish(Arg(args, 1), JsNumber(1))
        i == this.i - step.n
    IN  [this EXCEPT !.i = IF i >= 0 THEN i ELSE this.values.length + i]

\* a ring holds at most MaxRingLength items, is moved by at most MaxStep
\* positions in one call, and its position is followed within
\* -MaxIndex..MaxIndex
MaxRingLength == 3
MaxStep == 3
MaxIndex == 4

Items == { JsString("a"), JsString("b") }

\* the argument lists of next and prev: no step, or a step of 1 or more
StepArgs == {<<>>} \cup { <<JsNumber(k)>> : k \in 1..MaxStep }

\* new Gmt.RingArray() or new Gmt.RingArray([...]); the caller notes whether
\* next or prev has been called while the ring was empty
RingInit ==
    /\ \E args \in {<<>>} \cup
                   { <<JsArray(seq)>> :
                       seq \in UNION { [1..n -> Items] : n \in 0..MaxRingLength } } :
          util = [fn |-> "RingArray", this |-> RingArrayNew(args),
                  movedEmpty |-> FALSE]
    /\ uret = NoCall
    /\ SegIdle
    /\ PolyIdle
    /\ CircleIdle

\* ring.add(item)
CallRingAdd ==
    /\ util # null
    /\ util.fn = "RingArray"
    /\ util.this.values.length < MaxRingLength
    /\ \E item \in Items :
          /\ util' = [util EXCEPT !.this = RingArrayAdd(@, item)]
          /\ uret' = [op |-> "add", item |-> item]
    /\ UNCHANGED <<segVars, polyVars, circleVars>>

\* ring.replace(item), followed here for the positions 0..MaxRingLength - 1
CallRingReplace ==
    /\ util # null
    /\ util.fn = "RingArray"
    /\ util.this.i \in 0..(MaxRingLength - 1)
    /\ \E item \in Items :
          /\ util' = [util EXCEPT !.this = RingArrayReplace(@, item)]
          /\ uret' = [op |-> "replace", item |-> item]
    /\ UNCHANGED <<segVars, polyVars, circleVars>>

\* ring.reset()
CallRingReset ==
    /\ util # null
    /\ util.fn = "RingArray"
    /\ util' = [util EXCEPT !.this = RingArrayReset(@)]
    /\ uret' = [op |-> "reset"]
    /\ UNCHANGED <<segVars, polyVars, circleVars>>

\* r = ring.get()
CallRingGet ==
    /\ util # null
    /\ util.fn = "RingArray"
    /\ uret' = [op |-> "get", ret |-> RingArrayGet(util.this)]
    /\ UNCHANGED <<util, segVars, polyVars, circleVars>>

\* r = ring.next(step)
CallRingNext ==
    /\ util # null
    /\ util.fn = "RingArray"
    /\ \E args \in StepArgs :
          /\ RingArrayNext(util.this, args).i \in (0 - MaxIndex)..MaxIndex
          /\ util' = [util EXCEPT
                        !.this = RingArrayNext(@, args),
                        !.movedEmpty = @ \/ util.this.values.length = 0]
          /\ uret' = [op |-> "next", args |-> args,
                      ret |-> RingArrayGet(RingArrayNext(util.this, args))]
    /\ UNCHANGED <<segVars, polyVars, circleVars>>

\* r = ring.prev(step)
CallRingPrev ==
    /\ util # null
    /\ util.fn = "RingArray"
    /\ \E args \in StepArgs :
          /\ RingArrayPrev(util.this, args).i \in (0 - MaxIndex)..MaxIndex
          /\ util' = [util EXCEPT
                        !.this = RingArrayPrev(@, args),
                        !.movedEmpty = @ \/ util.this.values.length = 0]
          /\ uret' = [op |-> "prev", args |-> args,
                      ret |-> RingArrayGet(RingArrayPrev(util.this, args))]
    /\ UNCHANGED <<segVars, polyVars, circleVars>>

RingNext ==
    \/ CallRingAdd
    \/ CallRingReplace
    \/ CallRingReset
    \/ CallRingGet
    \/ CallRingNext
    \/ CallRingPrev

SpecRing == RingInit /\ [][RingNext]_vars

\* -------------------------------------------------------------- Gmt.Counter

\* new Gmt.Counter(baseValue, step)
CounterNew(args) ==
    LET value == nullish(Arg(args, 1), JsNumber(0))
        step == nullish(Arg(args, 2), JsNumber(1))
    IN  [value |-> JsSub(value, step), step |-> step]

\* Counter.next(): the receiver afterwards; the call returns its value
CounterNext(this) == [this EXCEPT !.value = JsAdd(@, this.step)]

\* Counter.reset(): the receiver afterwards
CounterReset(this) == [this EXCEPT !.value = JsSub(JsNumber(0), this.step)]

\* base values and steps are drawn from -MaxCounter..MaxCounter, and a
\* counter is followed for MaxCalls calls of next()
MaxCounter == 2
MaxCalls == 3

CounterNumbers == { JsNumber(n) : n \in (0 - MaxCounter)..MaxCounter }

\* the argument lists of the constructor: none, a base value, or a base
\* value (or undefined in its place) and a step
CounterArgs ==
    {<<>>} \cup { <<b>> : b \in CounterNumbers }
           \cup { <<b, st>> : b \in CounterNumbers \cup {JsUndefined},
                              st \in CounterNumbers }

\* new Gmt.Counter(...args); the caller keeps the arguments, counts the
\* calls of next() and notes a reset()
CounterInit ==
    /\ \E args \in CounterArgs :
          util = [fn |-> "Counter", this |-> CounterNew(args), args |-> args,
                  calls |-> 0, reset |-> FALSE]
    /\ uret = NoCall
    /\ SegIdle
    /\ PolyIdle
    /\ CircleIdle

\* r = counter.next()
CallCounterNext ==
    /\ util # null
    /\ util.fn = "Counter"
    /\ util.calls < MaxCalls
    /\ util' = [util EXCEPT !.this = CounterNext(@), !.calls = @ + 1]
    /\ uret' = [op |-> "next", ret |-> CounterNext(util.this).value]
    /\ UNCHANGED <<segVars, polyVars, circleVars>>

\* counter.reset()
CallCounterReset ==
    /\ util # null
    /\ util.fn = "Counter"
    /\ util' = [util EXCEPT !.this = CounterReset(@), !.calls = 0,
                            !.reset = TRUE]
    /\ uret' = [op |-> "reset"]
    /\ UNCHANGED <<segVars, polyVars, circleVars>>

CounterNextStep ==
    \/ CallCounterNext
    \/ CallCounterReset

SpecCounter == CounterInit /\ [][CounterNextStep]_vars

\* ------------------------------------------------------- Gmt.ease (utility)

EaseAwayFromTarget(current, target, step) ==
    LET st == IF JsTruthy(step) THEN step ELSE JsNumber(1)
    IN  IF Abs(current.n - target.n) <= st.n THEN target
        ELSE IF current.n > target.n THEN JsAdd(current, st)
        ELSE JsSub(current, st)

\* Gmt.ease(current, target, step)
Ease(current, target, step) ==
    LET st == IF JsTruthy(step) THEN step ELSE JsNumber(1)
    IN  IF Abs(current.n - target.n) <= st.n THEN target
        ELSE IF current.n > target.n THEN JsSub(current, st)
        ELSE JsAdd(current, st)

\* current and target are drawn from -MaxEase..MaxEase, the step from
\* 1..MaxEaseStep, and a value is eased MaxEaseCalls times at most
MaxEase == 2
MaxEaseStep == 3
MaxEaseCalls == 5

EaseNumbers == { JsNumber(n) : n \in (0 - MaxEase)..MaxEase }

\* the caller picks a start, a target and a step; it keeps the start and
\* counts its calls
EaseInit ==
    /\ \E start \in EaseNumbers, target \in EaseNumbers,
          step \in { JsNumber(n) : n \in 1..MaxEaseStep } :
          util = [fn |-> "ease", current |-> start, target |-> target,
                  step |-> step, start |-> start, calls |-> 0]
    /\ uret = NoCall
    /\ SegIdle
    /\ PolyIdle
    /\ CircleIdle

\* current = Gmt.ease(current, target, step)
CallEase ==
    /\ util # null
    /\ util.fn = "ease"
    /\ util.calls < MaxEaseCalls
    /\ util' = [util EXCEPT !.current = Ease(@, util.target, util.step),
                            !.calls = @ + 1]
    /\ uret' = [op |-> "ease", current |-> util.current,
                ret |-> Ease(util.current, util.target, util.step)]
    /\ UNCHANGED <<segVars, polyVars, circleVars>>

EaseNext == CallEase

SpecEase == EaseInit /\ [][EaseNext]_vars

\* ------------------------------------------------------ Gmt.range (utility)

RangeContinuesBelowMax(min, max) == min.n < max.n

\* the loop condition min <= max of range
RangeContinues(min, max) == min.n <= max.n

\* min and max are drawn from -MaxRange..MaxRange and the step from
\* -MaxRangeStep..MaxRangeStep; an array that holds MaxArrayLength elements
\* cannot grow: the next push fails
MaxRange == 2
MaxRangeStep == 2
MaxArrayLength == 8

\* the argument lists of range: min and max, or min, max and a step
RangeArgs ==
    { <<JsNumber(a), JsNumber(b)>> :
        a \in (0 - MaxRange)..MaxRange, b \in (0 - MaxRange)..MaxRange }
        \cup
    { <<JsNumber(a), JsNumber(b), JsNumber(st)>> :
        a \in (0 - MaxRange)..MaxRange, b \in (0 - MaxRange)..MaxRange,
        st \in (0 - MaxRangeStep)..MaxRangeStep }

\* Gmt.range(min, max, step) has been entered: step is read through nullish
\* and arr is empty; the caller keeps the arguments
RangeInit ==
    /\ \E args \in RangeArgs :
          util = [fn |-> "range", args |-> args, pc |-> "while",
                  min |-> args[1], max |-> args[2],
                  step |-> nullish(Arg(args, 3), JsNumber(1)),
                  arr |-> JsArray(<<>>)]
    /\ uret = NoCall
    /\ SegIdle
    /\ PolyIdle
    /\ CircleIdle

\* one turn of the loop: arr.push(min); min += step
RangeLoop ==
    /\ util # null
    /\ util.fn = "range"
    /\ util.pc = "while"
    /\ RangeContinues(util.min, util.max)
    /\ util.arr.length < MaxArrayLength
    /\ util' = [util EXCEPT !.arr = ArrayPush(@, util.min),
                            !.min = JsAdd(@, util.step)]
    /\ UNCHANGED <<uret, segVars, polyVars, circleVars>>

\* arr.push(min) on an array that cannot grow ends the call with an error
RangeOutOfMemory ==
    /\ util # null
    /\ util.fn = "range"
    /\ util.pc = "while"
    /\ RangeContinues(util.min, util.max)
    /\ util.arr.length = MaxArrayLength
    /\ util' = [util EXCEPT !.pc = "done"]
    /\ uret' = [op |-> "range", res |-> Thrown("RangeError")]
    /\ UNCHANGED <<segVars, polyVars, circleVars>>

\* the loop is left: return arr
RangeReturn ==
    /\ util # null
    /\ util.fn = "range"
    /\ util.pc = "while"
    /\ ~RangeContinues(util.min, util.max)
    /\ util' = [util EXCEPT !.pc = "done"]
    /\ uret' = [op |-> "range", res |-> Returned(util.arr)]
    /\ UNCHANGED <<segVars, polyVars, circleVars>>

RangeNext ==
    \/ RangeLoop
    \/ RangeOutOfMemory
    \/ RangeReturn

SpecRange == RangeInit /\ [][RangeNext]_vars

\* ------------------------------------------------- Gmt.echo (both versions)

\* the two versions of the library: src/gmt.js and the later
\* src/unnamed/part_000
Versions == {"gmt.js", "part_000"}

\* Gmt.times is a function: src/gmt.js defines it, src/unnamed/part_000 does
\* not (its loop helper is named iter1D)
TimesIsDefined(version) == version = "gmt.js"

\* Gmt.times(iterations, func) of src/gmt.js: the indices func is called
\* with, which it takes in rising order
TimesIndices(iterations) == 0..(iterations - 1)

\* setTimeout(func, ms, arg) at the time now: the timer it registers, the
\* order-th of the page; a timer is due after ms milliseconds, at once for
\* an ms below 0
SetTimeout(now, ms, arg, order) ==
    [due |-> now + (IF ms > 0 THEN ms ELSE 0), arg |-> arg, order |-> order]

\* Gmt.echo(iterations, delay, func) at the time now: how the call ends and
\* the timers it has registered; calling Gmt.times where it is not a
\* function throws a TypeError
Echo(version, iterations, delay, now) ==
    IF TimesIsDefined(version)
    THEN [res |-> Returned(JsUndefined),
          timers |-> { SetTimeout(now, delay * i, i, i) :
                         i \in TimesIndices(iterations) }]
    ELSE [res |-> Thrown("TypeError"), timers |-> {}]

\* echo is called with 0..MaxIterations iterations and a delay of
\* 0..MaxEchoDelay milliseconds
MaxIterations == 4
MaxEchoDelay == 3

\* a page has loaded one version of the library; the clock reads 0, no timer
\* is registered and func has not been called
EchoInit ==
    /\ \E version \in Versions, iterations \in 0..MaxIterations,
          delay \in 0..MaxEchoDelay :
          util = [fn |-> "echo", version |-> version,
                  iterations |-> iterations, delay |-> delay,
                  now |-> 0, timers |-> {}, calls |-> <<>>]
    /\ uret = NoCall
    /\ SegIdle
    /\ PolyIdle
    /\ CircleIdle

\* Gmt.echo(iterations, delay, func)
CallEcho ==
    /\ util # null
    /\ util.fn = "echo"
    /\ uret = NoCall
    /\ LET echo == Echo(util.version, util.iterations, util.delay, util.now)
       IN  /\ util' = [util EXCEPT !.timers = echo.timers]
           /\ uret' = [op |-> "echo", res |-> echo.res]
    /\ UNCHANGED <<segVars, polyVars, circleVars>>

\* the timer that is due first, the one registered first among those due
\* together, fires when it is due: func(arg) is called
TimerFires ==
    /\ util # null
    /\ util.fn = "echo"
    /\ \E timer \in util.timers :
          /\ \A other \in util.timers :
                \/ timer.due < other.due
                \/ timer.due = other.due /\ timer.order <= other.order
          /\ util' = [util EXCEPT
                        !.timers = @ \ {timer},
                        !.now = timer.due,
                        !.calls = Append(@, [arg |-> timer.arg, at |-> timer.due])]
    /\ UNCHANGED <<uret, segVars, polyVars, circleVars>>

EchoNext ==
    \/ CallEcho
    \/ TimerFires

SpecEcho == EchoInit /\ [][EchoNext]_vars

\* ---------------------------------------------------------------- Gmt.Input

\* the key codes of the events and queries followed here
Codes == {"KeyA", "KeyB", "Space"}

\* Input.keys is called with MaxKeysArgs codes at most
MaxKeysArgs == 2

\* obj[code] = val for the object _keys: the object afterwards
KeysSet(keys, code, val) ==
    [c \in (DOMAIN keys) \cup {code} |-> IF c = code THEN val ELSE keys[c]]

\* the keydown listener that init() installs
OnKeyDown(this, code) == [this EXCEPT !._keys = KeysSet(@, code, TRUE)]

\* the keyup listener that init() installs
OnKeyUp(this, code) == [this EXCEPT !._keys = KeysSet(@, code, FALSE)]

InputKeyOnceSeen(this, code) == code \in DOMAIN this._keys

\* Input.key(code)
InputKey(this, code) ==
    IF code \in DOMAIN this._keys THEN this._keys[code] ELSE FALSE

\* Input.keys(...codes): the loop from index i on
RECURSIVE InputKeysFrom(_, _, _)
InputKeysFrom(this, codes, i) ==
    IF i > Len(codes) THEN TRUE
    ELSE IF ~InputKey(this, codes[i]) THEN FALSE
    ELSE InputKeysFrom(this, codes, i + 1)

\* Input.keys(...codes)
InputKeys(this, codes) == InputKeysFrom(this, codes, 1)

\* the library is loaded: _keys is empty and no listener is installed; the
\* page notes the last event of each code
InputInit ==
    /\ util = [fn |-> "Input",
               this |-> [_keys |-> [c \in {} |-> FALSE], listening |-> FALSE],
               last |-> [c \in Codes |-> "none"]]
    /\ uret = NoCall
    /\ SegIdle
    /\ PolyIdle
    /\ CircleIdle

\* Input.init()
CallInputInit ==
    /\ util # null
    /\ util.fn = "Input"
    /\ util' = [util EXCEPT !.this.listening = TRUE]
    /\ uret' = [op |-> "init"]
    /\ UNCHANGED <<segVars, polyVars, circleVars>>

\* a keydown event reaches document.onkeydown
KeyDown ==
    /\ util # null
    /\ util.fn = "Input"
    /\ util.this.listening
    /\ \E code \in Codes :
          /\ util' = [util EXCEPT !.this = OnKeyDown(@, code),
                                  !.last[code] = "keydown"]
          /\ uret' = [op |-> "keydown", code |-> code]
    /\ UNCHANGED <<segVars, polyVars, circleVars>>

\* a keyup event reaches document.onkeyup
KeyUp ==
    /\ util # null
    /\ util.fn = "Input"
    /\ util.this.listening
    /\ \E code \in Codes :
          /\ util' = [util EXCEPT !.this = OnKeyUp(@, code),
                                  !.last[code] = "keyup"]
          /\ uret' = [op |-> "keyup", code |-> code]
    /\ UNCHANGED <<segVars, polyVars, circleVars>>

\* r = Input.key(code)
CallInputKey ==
    /\ util # null
    /\ util.fn = "Input"
    /\ \E code \in Codes :
          uret' = [op |-> "key", code |-> code, ret |-> InputKey(util.this, code)]
    /\ UNCHANGED <<util, segVars, polyVars, circleVars>>

\* r = Input.keys(...codes)
CallInputKeys ==
    /\ util # null
    /\ util.fn = "Input"
    /\ \E codes \in UNION { [1..n -> Codes] : n \in 0..MaxKeysArgs } :
          uret' = [op |-> "keys", codes |-> codes,
                   ret |-> InputKeys(util.this, codes)]
    /\ UNCHANGED <<util, segVars, polyVars, circleVars>>

InputNext ==
    \/ CallInputInit
    \/ KeyDown
    \/ KeyUp
    \/ CallInputKey
    \/ CallInputKeys

SpecInput == InputInit /\ [][InputNext]_vars

\* --------------------- specification of the PolyLine and Polygon constructors

\* the constructors are given coordinates from -MaxNewCoord..MaxNewCoord
MaxNewCoord == 2

NewCoord == (0 - MaxNewCoord)..MaxNewCoord

\* argument lists of the constructors: none, x alone, or x and y
NewArgs ==
    {<<>>} \cup { <<x>> : x \in NewCoord }
           \cup { <<x, y>> : x \in NewCoord, y \in NewCoord }

\* the caller is about to construct a PolyLine or a Polygon
NewInit ==
    /\ \E class \in {"PolyLine", "Polygon"}, args \in NewArgs :
          util = [fn |-> "new", class |-> class, args |-> args]
    /\ uret = NoCall
    /\ PolyIdle
    /\ SegIdle
    /\ CircleIdle

\* shape = new Gmt.PolyLine(...args) or new Gmt.Polygon(...args)
CallNew ==
    /\ util # null
    /\ util.fn = "new"
    /\ shape = null
    /\ shape' = IF util.class = "Polygon"
                THEN PolygonNew(util.args)
                ELSE PolyLineNew(util.args)
    /\ out' = [op |-> "new"]
    /\ UNCHANGED <<segVars, circleVars, utilVars>>

NewNext == CallNew

SpecNew == NewInit /\ [][NewNext]_vars

\* ------------------------------------- Vertex.equals, Collision.vertices

\* Gmt.Collision.vertices(v1, v2)
CollisionVertices(v1, v2) == v1.x = v2.x /\ v1.y = v2.y

\* Vertex.equals(otherVertex): it calls Gmt.Intersection, which is an object
\* holding functions and not a function, so the call throws a TypeError
VertexEquals(this, otherVertex) == Thrown("TypeError")

\* the caller has built two vertices
EqualsInit ==
    /\ \E x1 \in Coord, y1 \in Coord, x2 \in Coord, y2 \in Coord :
          util = [fn |-> "equals", this |-> Vertex(x1, y1),
                  otherVertex |-> Vertex(x2, y2)]
    /\ uret = NoCall
    /\ SegIdle
    /\ PolyIdle
    /\ CircleIdle

\* r = this.equals(otherVertex)
CallVertexEquals ==
    /\ util # null
    /\ util.fn = "equals"
    /\ uret' = [op |-> "equals", res |-> VertexEquals(util.this, util.otherVertex)]
    /\ UNCHANGED <<util, segVars, polyVars, circleVars>>

\* r = Gmt.Collision.vertices(this, otherVertex)
CallCollisionVertices ==
    /\ util # null
    /\ util.fn = "equals"
    /\ uret' = [op |-> "Collision.vertices",
                res |-> Returned(CollisionVertices(util.this, util.otherVertex))]
    /\ UNCHANGED <<util, segVars, polyVars, circleVars>>

EqualsNext ==
    \/ CallVertexEquals
    \/ CallCollisionVertices

SpecEquals == EqualsInit /\ [][EqualsNext]_vars

\* ======================================================================
\* Properties of Intersection.segments (checked under Spec)
\* ======================================================================

\* the direction vector of a segment, and the determinant of two directions
Dir(s) == [x |-> s.end.x - s.start.x, y |-> s.end.y - s.start.y]
Det(a, b) == Dir(a).x * Dir(b).y - Dir(a).y * Dir(b).x

IntersectionCalled == isect.op = "Intersection.segments"

\* Geometry, stated without the code's formulas: some point lies on both
\* segments.  For non-parallel lines the parameters of the crossing point are
\* multiples of 1/|Det|, so it is enough to look at a.start + (i/D) * Dir(a)
\* and b.start + (j/D) * Dir(b) for i, j in 0..D, D = |Det(a, b)|.
CrossesWithin(a, b) ==
    LET D == Abs(Det(a, b))
    IN  \E i, j \in 0..D :
            /\ D * a.start.x + i * Dir(a).x = D * b.start.x + j * Dir(b).x
            /\ D * a.start.y + i * Dir(a).y = D * b.start.y + j * Dir(b).y

IsZeroOrOne(r) == r = IntToRat(0) \/ r = IntToRat(1)

\* C1: when the direction determinant is non-zero, Intersection.segments
\* reports intersect == true exactly when the crossing point of the two lines
\* has both parameters t and u in the closed interval [0, 1] (the bounds 0
\* and 1 included), i.e. exactly when the two segments have a common point.
C1_IntersectIffBothInClosedRange ==
    (IntersectionCalled /\ Det(s1, s2) # 0) =>
        /\ isect.ret.intersect <=> CrossesWithin(s1, s2)
        /\ isect.ret.intersect <=>
              /\ RatLeq(IntToRat(0), isect.ret.t) /\ RatLeq(isect.ret.t, IntToRat(1))
              /\ RatLeq(IntToRat(0), isect.ret.u) /\ RatLeq(isect.ret.u, IntToRat(1))

\* C1 witness: a call on non-parallel segments that touch with t exactly 1
\* and u strictly inside (0, 1), reported as intersecting.
C1_Witness ==
    /\ IntersectionCalled
    /\ Det(s1, s2) # 0
    /\ isect.ret.intersect
    /\ isect.ret.t = IntToRat(1)
    /\ ~IsZeroOrOne(isect.ret.u)

\* C2: when the direction determinant is 0 (parallel or collinear segments,
\* overlapping or not), Intersection.segments returns parallel == true,
\* vertex == null and intersect == false.
C2_ParallelResultWhenDetZero ==
    (IntersectionCalled /\ Det(s1, s2) = 0) =>
        /\ isect.ret.parallel = TRUE
        /\ isect.ret.vertex = null
        /\ isect.ret.intersect = FALSE

\* C2 witness: two collinear segments that overlap along (1,0)-(2,0) are
\* reported parallel and not intersecting.
C2_Witness ==
    /\ IntersectionCalled
    /\ s1 = Segment(0, 0, 2, 0)
    /\ s2 = Segment(1, 0, 2, 0)
    /\ isect.ret.parallel
    /\ ~isect.ret.intersect

\* one endpoint of a equals one endpoint of b and the other endpoints differ
SharesExactlyOneEndpoint(a, b) ==
    \/ a.start = b.start /\ a.end # b.end
    \/ a.start = b.end /\ a.end # b.start
    \/ a.end = b.start /\ a.start # b.end
    \/ a.end = b.end /\ a.start # b.start

\* the result says the segments intersect, with t or u exactly 0 or 1
IntersectsAtAnEnd(r) ==
    /\ r.intersect
    /\ ~r.parallel
    /\ IsZeroOrOne(r.t) \/ IsZeroOrOne(r.u)

\* C3 as stated: any two segments that share exactly one endpoint are
\* reported as intersecting, with t or u exactly 0 or 1.
C3_Original_SharedEndpointIntersects ==
    (IntersectionCalled /\ SharesExactlyOneEndpoint(s1, s2)) =>
        IntersectsAtAnEnd(isect.ret)

\* C3 amended: any two segments with a non-zero direction determinant that
\* share exactly one endpoint are reported as intersecting, with t or u
\* exactly 0 or 1.
C3_SharedEndpointIntersectsUnlessParallel ==
    (IntersectionCalled /\ SharesExactlyOneEndpoint(s1, s2) /\ Det(s1, s2) # 0) =>
        IntersectsAtAnEnd(isect.ret)

\* C3 witness: the end of s1 is the start of s2, the lines are not parallel,
\* and the call reports an intersection with t = 1 and u = 0.
C3_Witness ==
    /\ IntersectionCalled
    /\ s1.end = s2.start
    /\ SharesExactlyOneEndpoint(s1, s2)
    /\ Det(s1, s2) # 0
    /\ isect.ret.intersect
    /\ isect.ret.t = IntToRat(1)
    /\ isect.ret.u = IntToRat(0)

\* the point start + r * (end - start) of the line through segment s
PointAt(s, r) ==
    Vertex(RatAdd(IntToRat(s.start.x), RatMul(r, IntToRat(Dir(s).x))),
           RatAdd(IntToRat(s.start.y), RatMul(r, IntToRat(Dir(s).y))))

\* C4: whenever Intersection.segments reports parallel == false, vertex is
\* not null and is the point of parameter t on the line of s1 and also the
\* point of parameter u on the line of s2, whether or not intersect is true;
\* (0,0)-(2,2) and (0,2)-(2,0) give vertex (1,1) with t = u = 1/2.
C4_VertexIsTheCrossingPoint ==
    /\ (IntersectionCalled /\ isect.ret.parallel = FALSE) =>
          /\ isect.ret.vertex # null
          /\ isect.ret.vertex = PointAt(s1, isect.ret.t)
          /\ isect.ret.vertex = PointAt(s2, isect.ret.u)
    /\ (IntersectionCalled /\ s1 = Segment(0, 0, 2, 2) /\ s2 = Segment(0, 2, 2, 0)) =>
          /\ isect.ret.parallel = FALSE
          /\ isect.ret.intersect
          /\ isect.ret.vertex = Vertex(IntToRat(1), IntToRat(1))
          /\ isect.ret.t = Frac(1, 2)
          /\ isect.ret.u = Frac(1, 2)

\* C4 witness: a call on non-parallel segments that do not intersect still
\* returns a vertex, here one with a non-integer coordinate.
C4_Witness ==
    /\ IntersectionCalled
    /\ isect.ret.parallel = FALSE
    /\ isect.ret.intersect = FALSE
    /\ isect.ret.vertex # null
    /\ isect.ret.vertex.x.den > 1

IsPoint(s) == s.start = s.end

\* C5: when either segment has zero length the call returns the parallel
\* result (parallel == true, vertex == null, intersect == false) and divides
\* by nothing, so in particular never by zero.
C5_ZeroLengthIsParallel ==
    (IntersectionCalled /\ (IsPoint(s1) \/ IsPoint(s2))) =>
        /\ isect.ret.parallel = TRUE
        /\ isect.ret.vertex = null
        /\ isect.ret.intersect = FALSE
        /\ \A i \in DOMAIN divs : divs[i] # 0
        /\ divs = <<>>

\* C5 witness: s2 is the single point (1,1), which lies on s1 = (0,0)-(2,2),
\* and the call reports the parallel result.
C5_Witness ==
    /\ IntersectionCalled
    /\ s1 = Segment(0, 0, 2, 2)
    /\ s2 = Segment(1, 1, 1, 1)
    /\ isect.ret.parallel
    /\ ~isect.ret.intersect

\* ======================================================================
\* Properties of PolyLine and Polygon (checked under SpecPolyLine, SpecPolygon)
\* ======================================================================

\* the open chain over a vertex list: segment i runs from vertex i to i + 1
Chain(vs) == [i \in 1..(Len(vs) - 1) |-> [start |-> vs[i], end |-> vs[i + 1]]]

\* the sum of the lengths of a list of segments
RECURSIVE SumOfLengths(_)
SumOfLengths(segments) ==
    IF segments = <<>>
    THEN SurdZero
    ELSE SurdAdd(SegmentLength(Head(segments)), SumOfLengths(Tail(segments)))

Square2 == <<Vertex(0, 0), Vertex(2, 0), Vertex(2, 2), Vertex(0, 2)>>

\* C6: for a Polygon with n >= 1 vertices, toSegments() returns the n - 1
\* segments of the open chain followed by one closing segment that starts at
\* the last vertex and ends at the first vertex, n segments in all.
C6_ClosingSegmentRunsLastToFirst ==
    (shape.class = "Polygon" /\ out.op = "toSegments" /\ Len(VerticesOf(shape)) >= 1) =>
        LET vs == VerticesOf(shape)
            n == Len(vs)
        IN  /\ ~out.res.threw
            /\ Len(out.res.ret) = n
            /\ out.res.ret = Append(Chain(vs), [start |-> vs[n], end |-> vs[1]])

\* C7: for a PolyLine with n vertices, toSegments() returns max(n - 1, 0)
\* segments, the i-th running from vertex i to vertex i + 1, and no closing
\* segment.
C7_PolyLineToSegmentsIsTheOpenChain ==
    (shape.class = "PolyLine" /\ out.op = "toSegments") =>
        LET vs == VerticesOf(shape)
            n == Len(vs)
        IN  /\ ~out.res.threw
            /\ Len(out.res.ret) = (IF n >= 1 THEN n - 1 ELSE 0)
            /\ \A i \in 1..Len(out.res.ret) :
                  /\ out.res.ret[i].start = vs[i]
                  /\ out.res.ret[i].end = vs[i + 1]

\* C7 witness: toSegments() of a PolyLine of four vertices, the last away from
\* the first, returned three segments.
C7_Witness ==
    /\ shape.class = "PolyLine"
    /\ out.op = "toSegments"
    /\ Len(shape.vertices) = 4
    /\ shape.vertices[1] # shape.vertices[4]
    /\ Len(out.res.ret) = 3

\* C8: for a Polygon with at least one vertex, length() is length() of the
\* PolyLine over the same vertices plus the distance from the last vertex to
\* the first, and each is the sum of the lengths of its toSegments(); for the
\* vertices (0,0),(2,0),(2,2),(0,2) the Polygon has 4 segments and length 8,
\* the PolyLine 3 segments and length 6.
C8_PolygonLengthAddsTheClosingEdge ==
    LET vs == VerticesOf(shape)
        n == Len(vs)
        open == PolyLineLength(shape.body)
    IN  /\ (shape.class = "Polygon" /\ out.op = "length" /\ n >= 1) =>
              /\ ~out.res.threw
              /\ out.res.ret = SurdAdd(open, DistanceVertices(vs[n], vs[1]))
              /\ out.res.ret = SumOfLengths(PolygonToSegments(shape).ret)
              /\ open = SumOfLengths(PolyLineToSegments(shape.body))
        /\ (shape.class = "Polygon" /\ vs = Square2) =>
              /\ out.op = "toSegments" => Len(out.res.ret) = 4
              /\ out.op = "length" => out.res.ret = IntToSurd(8)
              /\ Len(PolyLineToSegments(shape.body)) = 3
              /\ open = IntToSurd(6)

\* C8 witness: length() of the Polygon (0,0),(2,0),(2,2),(0,2) returned 8.
C8_Witness ==
    /\ shape.class = "Polygon"
    /\ VerticesOf(shape) = Square2
    /\ out.op = "length"
    /\ out.res.ret = IntToSurd(8)

\* ======================================================================
\* Properties of the circle collisions (checked under SpecCircle)
\* ======================================================================

\* the square of the distance between two points given by their x, y fields
DistSq(p, q) == (p.x - q.x) * (p.x - q.x) + (p.y - q.y) * (p.y - q.y)

\* the distance between p and q is less than the number r
CloserThan(p, q, r) == r > 0 /\ DistSq(p, q) < r * r

\* C9: Collision.vertexVsCircle(v, c) is true exactly when the distance from
\* v to the centre of c is less than the radius of c; a point on the boundary
\* is no collision, the centre of a circle of radius > 0 is one.
C9_VertexCollidesIffStrictlyInside ==
    hit.op = "Collision.vertexVsCircle" =>
        /\ hit.ret <=> CloserThan(v, c1, c1.radius)
        /\ (c1.radius >= 0 /\ DistSq(v, c1) = c1.radius * c1.radius) => ~hit.ret
        /\ (c1.radius > 0 /\ v.x = c1.x /\ v.y = c1.y) => hit.ret

\* C9 witness: v lies on the boundary of a circle of radius > 0, away from the
\* centre, and the call returned false.
C9_Witness ==
    /\ hit.op = "Collision.vertexVsCircle"
    /\ c1.radius > 0
    /\ DistSq(v, c1) = c1.radius * c1.radius
    /\ hit.ret = FALSE

\* C10: Collision.circles(c1, c2) is true exactly when the distance between
\* the centres is less than c1.radius + c2.radius; circles that touch from
\* outside (distance equal to the sum of the radii) do not collide, a circle
\* inside another one does.
C10_CirclesCollideIffCentresCloserThanRadii ==
    hit.op = "Collision.circles" =>
        /\ hit.ret <=> CloserThan(c1, c2, c1.radius + c2.radius)
        /\ (c1.radius > 0 /\ c2.radius > 0
              /\ DistSq(c1, c2) = (c1.radius + c2.radius) * (c1.radius + c2.radius))
              => ~hit.ret

\* C10 witness: two circles of radius > 0 touch from outside and the call
\* returned false.
C10_Witness ==
    /\ hit.op = "Collision.circles"
    /\ c1.radius > 0
    /\ c2.radius > 0
    /\ DistSq(c1, c2) = (c1.radius + c2.radius) * (c1.radius + c2.radius)
    /\ hit.ret = FALSE

\* ======================================================================
\* Symmetry of Distance (checked under SpecCircle)
\* ======================================================================

\* C11: Distance.vertices and Distance.circles give the same value when their
\* two arguments are exchanged, and the distance from a vertex to itself is 0.
C11_DistanceIsSymmetric ==
    /\ hit.op = "Distance.vertices" =>
          /\ hit.ret = DistanceVertices(hit.b, hit.a)
          /\ hit.a = hit.b => hit.ret = IntToSurd(0)
    /\ hit.op = "Distance.circles" =>
          hit.ret = DistanceCircles(hit.b, hit.a)

\* C11 witness: Distance.circles was called on two circles with different
\* centres and different radii.
C11_Witness ==
    /\ hit.op = "Distance.circles"
    /\ hit.a.radius # hit.b.radius
    /\ hit.a.x # hit.b.x
    /\ hit.ret = DistanceCircles(hit.b, hit.a)

\* ======================================================================
\* Properties of cartesianToPolar (checked under SpecPolar)
\* ======================================================================

\* C12: cartesianToPolar(x, y) with x == 0 divides by no zero and returns
\* phi = PI/2 when y > 0 and phi = 3*PI/2 otherwise, (0, 0) included, with r
\* the distance of (x, y) from the origin, which is |y|.
C12_PolarOnTheYAxis ==
    (uret.op = "cartesianToPolar" /\ util.x = 0) =>
        /\ \A i \in DOMAIN uret.divs : uret.divs[i] # 0
        /\ util.y > 0 => uret.ret.phi = Angle(IntToRat(0), Frac(1, 2))
        /\ util.y <= 0 => uret.ret.phi = Angle(IntToRat(0), Frac(3, 2))
        /\ uret.ret.r = IntToSurd(Abs(util.y))

\* C12 witness: cartesianToPolar(0, 0) returned phi = 3*PI/2 and r = 0.
C12_Witness ==
    /\ uret.op = "cartesianToPolar"
    /\ util.x = 0
    /\ util.y = 0
    /\ uret.ret.phi = Angle(IntToRat(0), Frac(3, 2))
    /\ uret.ret.r = IntToSurd(0)

\* ======================================================================
\* Properties of the calls on one shape (checked under SpecShape)
\* ======================================================================

\* PI * r * r
PiRSquared(r) == PiMul(PiMul(GmtPI, PiTerm(r, 0)), PiTerm(r, 0))

\* C13: getArea() of a Circle of radius >= 0 returns PI * radius * radius.
C13_AreaIsPiRSquared ==
    (out.op = "getArea" /\ shape.radius >= 0) =>
        out.res = Returned(PiRSquared(shape.radius))

\* C14: Rectangle.move(dx, dy) completes normally, has added dx to x and dy
\* to y, has left width and height alone, and returns the receiver.
C14_RectangleMoveReturnsTheMovedReceiver ==
    (out.op = "move" /\ ClassOf(shape) = "Rectangle") =>
        /\ out.res = Returned("this")
        /\ shape = Rectangle(out.before.x + out.dx, out.before.y + out.dy,
                             out.before.width, out.before.height)

\* C15: move(dx, dy) on a Vertex, Segment, PolyLine, Polygon or Circle
\* returns the receiver with every point translated by (dx, dy), the same
\* number of points in the same order, the same radius and the same length.
C15_MoveTranslatesEveryPoint ==
    (out.op = "move" /\ ClassOf(shape) # "Rectangle") =>
        LET before == PointsOf(out.before)
            after == PointsOf(shape)
            class == ClassOf(shape)
        IN  /\ out.res = Returned("this")
            /\ class = ClassOf(out.before)
            /\ Len(after) = Len(before)
            /\ \A i \in 1..Len(before) :
                  /\ after[i].x = before[i].x + out.dx
                  /\ after[i].y = before[i].y + out.dy
            /\ class = "Circle" => shape.radius = out.before.radius
            /\ class = "Segment" =>
                  SegmentLength(shape) = SegmentLength(out.before)
            /\ class = "PolyLine" =>
                  PolyLineLength(shape) = PolyLineLength(out.before)
            /\ class = "Polygon" =>
                  PolygonLength(shape) = PolygonLength(out.before)

\* a triangle has been moved along both axes
C15_Witness ==
    /\ out.op = "move"
    /\ ClassOf(shape) = "Polygon"
    /\ Len(VerticesOf(shape)) = 3
    /\ out.dx # 0
    /\ out.dy # 0
    /\ PolygonLength(shape).ret # IntToSurd(0)

\* C17: changing what toSegments(), toVertices() or getCenter() returned,
\* with move or push, leaves the shape it came from as it was.
C17_ReturnedValuesShareNothing ==
    out.op \in {"client.move", "client.push"} => shape = out.before

\* ======================================================================
\* Properties of the query calls (checked under SpecQueries)
\* ======================================================================

\* a call of a function of Distance, Collision or Intersection, or of
\* toSegments() or length()
QueryCall ==
    \/ CallIntersectionSegments
    \/ CallCollisionSegments
    \/ CallCollisionVertexVsCircle
    \/ CallCollisionCircles
    \/ CallDistanceVertices
    \/ CallDistanceCircles
    \/ CallToSegments
    \/ CallLength

C18_NullishDefaultsOnlyNull ==
    uret.op = "nullish" =>
        uret.ret = IF util.value.t \in {"null", "undefined"}
                   THEN util.def
                   ELSE util.value

\* ======================================================================
\* Properties of RingArray (checked under SpecRing)
\* ======================================================================

\* C19: a ring that was not empty when it was moved keeps its position
\* within 0..length - 1, and get(), next() and prev() return an item it holds.
C19_PositionStaysInsideTheRing ==
    (util.this.values.length >= 1 /\ ~util.movedEmpty) =>
        /\ util.this.i >= 0
        /\ util.this.i < util.this.values.length
        /\ uret.op \in {"get", "next", "prev"} => uret.ret \in Items

\* ======================================================================
\* Properties of Counter (checked under SpecCounter)
\* ======================================================================

\* the number passed as the i-th argument, or what stands in when it is omitted
NumberOr(args, i, def) ==
    IF i <= Len(args) /\ args[i].t = "number" THEN args[i].n ELSE def

\* C20: the k-th next() since construction returns baseValue + (k - 1) * step,
\* with baseValue 0 and step 1 when they are omitted.
C20_CounterIsAnArithmeticSeries ==
    (uret.op = "next" /\ ~util.reset) =>
        uret.ret = JsNumber(NumberOr(util.args, 1, 0)
                            + (util.calls - 1) * NumberOr(util.args, 2, 1))

\* ======================================================================
\* Properties of ease (checked under SpecEase)
\* ======================================================================

\* C21: with step > 0, a call of ease from within step of the target returns
\* the target; a call from further away returns a value that is step away
\* from current, step nearer to the target and on the same side of it; at
\* the target it stays there; and after k calls with k * step at least the
\* distance from the start, current is the target.
C21_EaseReachesTheTargetWithoutOvershoot ==
    uret.op = "ease" =>
        LET c == uret.current.n
            r == uret.ret.n
            t == util.target.n
            st == util.step.n
        IN  /\ Abs(c - t) <= st => r = t
            /\ Abs(c - t) > st =>
                  /\ Abs(r - c) = st
                  /\ Abs(r - t) = Abs(c - t) - st
                  /\ (c > t) <=> (r > t)
            /\ c = t => r = t
            /\ util.calls * st >= Abs(util.start.n - t) => util.current.n = t
            /\ util.current = uret.ret

\* the target is reached by the second call, a step shorter than the first
C21_Witness ==
    /\ uret.op = "ease"
    /\ util.calls = 2
    /\ Abs(util.start.n - util.target.n) > util.step.n
    /\ Abs(util.start.n - util.target.n) < 2 * util.step.n
    /\ uret.current # util.target
    /\ util.current = util.target

\* ======================================================================
\* Properties of range (checked under SpecRange)
\* ======================================================================

\* the step a call of range was given, 1 when it was given none
GivenStep(args) == IF Len(args) >= 3 THEN args[3].n ELSE 1

\* min, min + step, min + 2 * step, ... up to max, for a step above 0
ValuesUpTo(min, max, step) ==
    IF min > max
    THEN <<>>
    ELSE [k \in 1..(((max - min) \div step) + 1) |-> JsNumber(min + (k - 1) * step)]

\* the first n elements of an array, as a sequence
FirstOf(arr, n) == [k \in 1..n |-> ArrayGet(arr, k - 1)]

\* C22 as stated: for every step, range ends by returning the values min,
\* min + step, ... that do not exceed max; with min <= max and a step of 0
\* or less those values have no end, so no returned array holds them.
C22_Original_RangeAlwaysReturnsTheSeries ==
    util.pc = "done" =>
        /\ ~uret.res.threw
        /\ IF GivenStep(util.args) <= 0
           THEN util.args[1].n > util.args[2].n /\ uret.res.ret = JsArray(<<>>)
           ELSE uret.res.ret = JsArray(ValuesUpTo(util.args[1].n, util.args[2].n,
                                                  GivenStep(util.args)))

\* C22: with a step of 1 or more, or none given, the loop of range only ever
\* holds a prefix of min, min + step, ... up to max, so it ends after that
\* many turns, and the call returns exactly those values.
C22_RangeWithPositiveStepReturnsTheSeries ==
    GivenStep(util.args) >= 1 =>
        LET series == ValuesUpTo(util.args[1].n, util.args[2].n,
                                 GivenStep(util.args))
        IN  /\ util.arr.length <= Len(series)
            /\ FirstOf(util.arr, util.arr.length)
                  = [k \in 1..util.arr.length |-> series[k]]
            /\ util.pc = "done" => uret.res = Returned(JsArray(series))

\* a range whose step does not land on max has been returned
C22_Witness ==
    /\ util.pc = "done"
    /\ GivenStep(util.args) = 2
    /\ ~uret.res.threw
    /\ uret.res.ret.length = 2
    /\ ArrayGet(uret.res.ret, 1).n = util.args[2].n - 1

\* ======================================================================
\* Properties of echo (checked under SpecEcho)
\* ======================================================================

\* C23: in either version, echo returns having scheduled func iterations
\* times, and the k-th call of func has the argument k - 1 and comes
\* delay * (k - 1) ms after echo was called, so no later than
\* delay * (iterations - 1) ms.
C23_EchoCallsFuncOncePerIteration ==
    uret.op = "echo" =>
        /\ ~uret.res.threw
        /\ Len(util.calls) + Cardinality(util.timers) = util.iterations
        /\ \A k \in 1..Len(util.calls) :
              /\ util.calls[k].arg = k - 1
              /\ util.calls[k].at = util.delay * (k - 1)
              /\ util.calls[k].at <= util.delay * (util.iterations - 1)

\* ======================================================================
\* Properties of Input (checked under SpecInput)
\* ======================================================================

\* C24: once init() has run, key(code) is true exactly when the last event of
\* that code was a keydown, so false for a code without an event, and
\* keys(c1..cn) is true exactly when key(ci) is true for every i.
C24_KeyTellsTheLastEvent ==
    util.this.listening =>
        /\ uret.op = "key" => (uret.ret <=> util.last[uret.code] = "keydown")
        /\ uret.op = "keys" =>
              (uret.ret <=> \A i \in 1..Len(uret.codes) :
                               InputKey(util.this, uret.codes[i]))
        /\ \A code \in Codes :
              InputKey(util.this, code) <=> util.last[code] = "keydown"

\* a key was pressed and released again while another one is held, and both
\* are asked for together
C24_Witness ==
    /\ util.this.listening
    /\ uret.op = "keys"
    /\ Len(uret.codes) = 2
    /\ util.last[uret.codes[1]] = "keydown"
    /\ util.last[uret.codes[2]] = "keyup"
    /\ uret.ret = FALSE

\* ======================================================================
\* Properties of the constructors (checked under SpecNew)
\* ======================================================================

\* C25: a PolyLine or Polygon constructed with two numbers x and y, 0
\* included, holds the one vertex (x, y); one constructed without arguments
\* holds no vertex.
C25_ConstructorKeepsTheVertex ==
    out.op = "new" =>
        /\ Len(util.args) = 2 =>
              VerticesOf(shape) = <<Vertex(util.args[1], util.args[2])>>
        /\ Len(util.args) = 0 => VerticesOf(shape) = <<>>

\* ======================================================================
\* Properties of Vertex.equals (checked under SpecEquals)
\* ======================================================================

\* C26: equals never throws and returns what Collision.vertices returns for
\* the two vertices: true exactly when both coordinates are equal.
C26_EqualsIsCollisionVertices ==
    uret.op = "equals" =>
        /\ ~uret.res.threw
        /\ uret.res.ret = CollisionVertices(util.this, util.otherVertex)
        /\ uret.res.ret <=> (/\ util.this.x = util.otherVertex.x
                             /\ util.this.y = util.otherVertex.y)

\* ======================================================================
\* Properties of Counter.reset (checked under SpecCounter)
\* ======================================================================

\* C27: reset() puts the counter back into the state it had right after
\* construction, so the k-th next() after a reset returns what the k-th
\* next() after construction returned.
C27_ResetRestoresTheConstructedState ==
    /\ uret.op = "reset" => util.this = CounterNew(util.args)
    /\ (uret.op = "next" /\ util.reset) =>
          uret.ret.n = CounterNew(util.args).value.n
                       + util.calls * CounterNew(util.args).step.n

\* ======================================================================
\* Symmetry of Intersection.segments (checked under Spec)
\* ======================================================================

\* C28: Intersection.segments(s2, s1) reports the parallel and intersect
\* values and the vertex of Intersection.segments(s1, s2), with t and u
\* exchanged, and Collision.segments gives the same answer both ways round.
C28_SegmentsIsSymmetric ==
    LET swapped == IntersectionSegments(s2, s1)
    IN  /\ isect.op = "Intersection.segments" =>
              /\ swapped.parallel = isect.ret.parallel
              /\ swapped.intersect = isect.ret.intersect
              /\ swapped.vertex = isect.ret.vertex
              /\ ~isect.ret.parallel =>
                    /\ swapped.t = isect.ret.u
                    /\ swapped.u = isect.ret.t
        /\ isect.op = "Collision.segments" =>
              isect.ret = CollisionSegments(s2, s1)

\* two segments cross at a point that divides them differently
C28_Witness ==
    /\ isect.op = "Intersection.segments"
    /\ isect.ret.intersect
    /\ isect.ret.t # isect.ret.u
    /\ ~IsZeroOrOne(isect.ret.t)
    /\ IntersectionSegments(s2, s1).t = isect.ret.u

====
